---- MODULE Spec2Model ----
(***************************************************************************)
(* Model of the Map-backed Cache of the JS cheatsheet (section "3. Cache   *)
(* Implementation (using Map)").  The cache is a JavaScript Map from key   *)
(* to {value, expiry}; a Map iterates in insertion order, so it is         *)
(* modelled as a sequence of entries [key, value, expiry] with unique keys.*)
(* Every call passes its arguments: the defaults maxSize = 100 and         *)
(* ttl = 60000 are values beyond the bounds below, not other code paths.   *)
(***************************************************************************)
EXTENDS Integers, Sequences, FiniteSets, TLC

(* ---------------------------- bounds ----------------------------------- *)
MaxCap == 2
MaxTtl == 1
MaxCalls == 3
MaxLimit == 2
MaxRetries == 3
MaxDelay == 2
MaxItems == 2
MaxLen == 3
MaxVal == 2

(* capacities from -1 up; the clock runs until every ttl can have elapsed  *)
MinCap == 0 - 1
MaxTime == MaxTtl + 1

Keys == {"a", "b", "c"}
Values == {"v1", "v2"}
Capacities == MinCap..MaxCap
Ttls == 0..MaxTtl

(* ------------------------ program constants ---------------------------- *)
Null == "null"
Undefined == "undefined"
NoKey == "none"

VARIABLES
  constructed,  \* has `new Cache(..)` run
  maxSize,      \* this.maxSize
  cache,        \* this.cache, in insertion order
  now,          \* Date.now()
  last,         \* the call made last: [op, key, result, value, ttl]
  prev,         \* this.cache as it was before the last call (Spec)
  watch,        \* the key whose history is recorded (SpecHist)
  latest,       \* the most recent set of the watched key since
                \* construction or the last clear (SpecHist)
  used          \* the keys set since construction or the last clear

(* two Cache instances side by side (SpecTwo): the Map objects allocated   *)
(* by `new Map()`, and the instances holding a reference to theirs         *)
VARIABLES
  maps,         \* the Map objects, by reference
  insts,        \* the instances constructed: [cache (a reference), maxSize]
  acted         \* the call made last and the instance it was made on

(* promiseUtils.throttle (SpecThrottle, SpecThrottleLive) *)
VARIABLES
  wrapper,      \* has throttle(promiseFn, limit) returned its wrapper
  limit,        \* the limit it was given
  queue,        \* queue: the calls waiting, by call number
  activeCount,  \* activeCount
  calls,        \* per call: where it is, how promiseFn's promise settled,
                \* how the promise returned by the wrapper settled
  jobs,         \* the promise reaction jobs waiting, first in first out
  started       \* the calls in the order promiseFn was invoked for them

(* promisePatterns.retry (SpecRetry) *)
VARIABLES
  rpc,          \* where retry is: "idle", "calling" (awaiting promiseFn()),
                \* "waiting" (awaiting the timer), "returned" or "thrown"
  maxRetries,   \* maxRetries
  delay,        \* delay
  loopI,        \* the loop variable i
  lastError,    \* lastError
  result,       \* the value returned or the error thrown
  due,          \* the duration of the timer that is set
  elapsed,      \* the time gone by since the timer was set
  invoked,      \* the number of promiseFn invocations made
  attempts,     \* how each invocation settled: [ok, val]
  waited        \* how long each wait lasted

(* CustomSet (SpecSet) *)
VARIABLES
  items,        \* this.items
  setLast,      \* the call made last: [op, item, result]
  setPrev       \* this.items as it was before the last call

(* higherOrderFunctions.debounce (SpecDebounce, SpecDebounceLive) *)
VARIABLES
  debounced,    \* has debounce(fn, delay) returned its wrapper
  dbDelay,      \* the delay it was given
  timeout,      \* timeout: the id of the timer set last, 0 while undefined
  timers,       \* the timers pending in the host: [id, due, args]
  dbNow,        \* the host's clock
  dbCalls,      \* the calls of the wrapper: [args, at, cleared]
  runs          \* the runs of fn: [args, at, after]

(* binarySearch (SpecSearch, SpecSearchLive) *)
VARIABLES
  bsPc,         \* where binarySearch is: "idle", "loop" or "done"
  bsArr,        \* arr
  target,       \* target
  left,         \* left
  right,        \* right
  found         \* the value returned, meaningful when bsPc = "done"

cacheVars == <<constructed, maxSize, cache, last, prev, watch, latest, used>>
twoVars == <<maps, insts, acted>>
throttleVars == <<wrapper, limit, queue, activeCount, calls, jobs, started>>
retryVars == <<rpc, maxRetries, delay, loopI, lastError, result, due, elapsed,
               invoked, attempts, waited>>
setVars == <<items, setLast, setPrev>>
debounceVars == <<debounced, dbDelay, timeout, timers, dbNow, dbCalls, runs>>
searchVars == <<bsPc, bsArr, target, left, right, found>>

vars == <<cacheVars, now, twoVars, throttleVars, retryVars, setVars, debounceVars, searchVars>>

(* --------------------------- JavaScript Map ---------------------------- *)
MapKeys(m) == {m[i].key : i \in DOMAIN m}

MapHas(m, k) == k \in MapKeys(m)

MapIndex(m, k) == CHOOSE i \in DOMAIN m : m[i].key = k

MapGet(m, k) == m[MapIndex(m, k)]

MapDelete(m, k) == SelectSeq(m, LAMBDA e : e.key # k)

MapSetRefreshAll(m, k, v, x) ==
  LET e == [key |-> k, value |-> v, expiry |-> x]
      r == [i \in DOMAIN m |-> IF m[i].key = k THEN e
                                              ELSE [m[i] EXCEPT !.expiry = x]]
  IN IF MapHas(m, k) THEN r ELSE Append(r, e)

MapSet(m, k, v, x) ==
  LET e == [key |-> k, value |-> v, expiry |-> x]
  IN IF MapHas(m, k)
       THEN [i \in DOMAIN m |-> IF m[i].key = k THEN e ELSE m[i]]
       ELSE Append(m, e)

MapClearAllButFirst(m) == IF Len(m) = 0 THEN m ELSE <<m[1]>>

MapClear(m) == << >>

KeySeq(m) == [i \in DOMAIN m |-> m[i].key]

(* first key in insertion order removed; on an empty Map the first key is  *)
(* undefined and the delete removes nothing                                *)
DeleteLastKey(m) == IF Len(m) = 0 THEN m ELSE MapDelete(m, m[Len(m)].key)

DeleteFirstKey(m) == IF Len(m) = 0 THEN m ELSE MapDelete(m, m[1].key)

(* -------------------------------- Cache -------------------------------- *)
AboveMaxSize(m, cap) == Len(m) > cap

AtMaxSize(m, cap) == Len(m) >= cap

ExpiryOneLater(t, ttl) == t + ttl + 1

Expiry(t, ttl) == t + ttl

ExpiredAtOrAfter(e, t) == t >= e.expiry

Expired(e, t) == t > e.expiry

CacheSetSkipExisting(m, cap, k, v, ttl, t) ==
  LET m1 == IF AtMaxSize(m, cap) THEN DeleteFirstKey(m) ELSE m
  IN IF MapHas(m, k) THEN m ELSE MapSet(m1, k, v, Expiry(t, ttl))

CacheSetEvictExpiredFirst(m, cap, k, v, ttl, t) ==
  LET dead == {i \in DOMAIN m : Expired(m[i], t)}
      victim == IF dead = {} THEN 1 ELSE CHOOSE i \in dead : \A j \in dead : i <= j
      m1 == IF AtMaxSize(m, cap) /\ Len(m) > 0
              THEN MapDelete(m, m[victim].key)
              ELSE m
  IN MapSet(m1, k, v, Expiry(t, ttl))

CacheSet(m, cap, k, v, ttl, t) ==
  LET m1 == IF AtMaxSize(m, cap) THEN DeleteFirstKey(m) ELSE m
  IN MapSet(m1, k, v, Expiry(t, ttl))

GetResult(m, k, t) ==
  IF ~MapHas(m, k) THEN Null
  ELSE IF Expired(MapGet(m, k), t) THEN Null
  ELSE MapGet(m, k).value

GetStoreKeepExpired(m, k, t) == m

GetStoreSweep(m, k, t) == SelectSeq(m, LAMBDA e : ~Expired(e, t))

GetStoreTouch(m, k, t) ==
  IF ~MapHas(m, k) THEN m
  ELSE IF Expired(MapGet(m, k), t) THEN MapDelete(m, k)
  ELSE Append(MapDelete(m, k), MapGet(m, k))

GetStore(m, k, t) ==
  IF ~MapHas(m, k) THEN m
  ELSE IF Expired(MapGet(m, k), t) THEN MapDelete(m, k)
  ELSE m

(* history record of the watched key: never set, set, or set and then     *)
(* removed by a clear                                                      *)
NoSet == [state |-> "never", value |-> Null, at |-> 0, ttl |-> 0]

(* inputs of the two-instance specification *)
Instances == 1..2
Refs == 1..2
TwoKeys == {"a", "b"}
TwoValues == Values
TwoCaps == 1..2
TwoTtls == 0..1

(* `new Map()` is an object of its own, distinct from every Map allocated  *)
(* for the instances constructed so far                                    *)
SharedRef(is) == 1

FreshRef(is) == Len(is) + 1

StoreOf(i) == maps[insts[i].cache]

(* ------------------------- promiseUtils.throttle ----------------------- *)
CallIds == 1..MaxCalls
Limits == 1..MaxLimit
Outcomes == {"ok", "err"}

(* a call is "none" (not made), "queued", "pending" (promiseFn invoked,    *)
(* its promise unsettled), "settled" (that promise settled, the reaction   *)
(* that handles it not yet run) or "done" (the reaction has run)           *)
NotCalled == [st |-> "none", outcome |-> "none", returned |-> "none"]

OverLimit(ac, lim) == ac > lim

AtLimit(ac, lim) == ac >= lim

QueuePop(q) == [item |-> q[Len(q)], rest |-> SubSeq(q, 1, Len(q) - 1)]

QueueShift(q) == [item |-> Head(q), rest |-> Tail(q)]

(* executeNext: nothing when the queue is empty or the limit is reached,   *)
(* else the first queued call is taken, counted and promiseFn invoked      *)
ExecuteNext(q, ac, cs, so, lim) ==
  IF Len(q) = 0 \/ AtLimit(ac, lim)
    THEN [queue |-> q, activeCount |-> ac, calls |-> cs, started |-> so]
    ELSE LET sh == QueueShift(q)
         IN [queue |-> sh.rest,
             activeCount |-> ac + 1,
             calls |-> [cs EXCEPT ![sh.item].st = "pending"],
             started |-> Append(so, sh.item)]

(* ------------------------- promisePatterns.retry ----------------------- *)
RetryCounts == 0..MaxRetries
Delays == 0..MaxDelay
Errors == {"e1", "e2"}

RECURSIVE Pow2(_)
Pow2(n) == IF n = 0 THEN 1 ELSE 2 * Pow2(n - 1)

BackoffLinear(d, n) == d * (n + 1)

Backoff(d, n) == d * Pow2(n)

(* ------------------------------- CustomSet ----------------------------- *)
(* the elements offered; NaN is the one value that is not === itself       *)
NaN == "NaN"
Items == {"x", "y", NaN}
NoItem == "none"
Arrays == UNION {[1..n -> Items] : n \in 0..MaxItems}

(* === as indexOf compares, and SameValueZero as includes and Set compare  *)
StrictEquals(a, b) == a = b /\ a # NaN

SameValueZero(a, b) == a = b

Includes(arr, x) == \E n \in DOMAIN arr : SameValueZero(arr[n], x)

(* the 0-based index of the first element === x, or -1 *)
IndexOf(arr, x) ==
  LET hits == {n \in DOMAIN arr : StrictEquals(arr[n], x)}
  IN IF hits = {} THEN 0 - 1
     ELSE (CHOOSE n \in hits : \A m \in hits : n <= m) - 1

(* arr.splice(index, 1) with a 0-based index *)
Splice1(arr, index) ==
  [n \in 1..(Len(arr) - 1) |-> IF n <= index THEN arr[n] ELSE arr[n + 1]]

(* [...new Set(arr)]: the first occurrence of each element, in order *)
RECURSIVE Dedup(_)
Dedup(arr) ==
  IF arr = << >> THEN << >>
  ELSE LET front == Dedup(SubSeq(arr, 1, Len(arr) - 1))
           x == arr[Len(arr)]
       IN IF Includes(front, x) THEN front ELSE Append(front, x)

SetAdd(arr, x) == IF ~Includes(arr, x) THEN Append(arr, x) ELSE arr

SetDelete(arr, x) ==
  LET index == IndexOf(arr, x)
  IN IF index > 0 - 1 THEN Splice1(arr, index) ELSE arr

(* -------------------- higherOrderFunctions.debounce -------------------- *)
(* setTimeout and clearTimeout are the host's: a timer set for delay runs  *)
(* its callback once, in a task of its own, when at least delay has gone   *)
(* by; how much later is the host's choice.  clearTimeout of an id that is *)
(* not pending (undefined, or a timer that has run) does nothing.          *)
DbDelays == 0..MaxDelay
DbArgs == {"p", "q"}
DbMaxTime == MaxDelay + 2

KeepTimeout(ts, id) == ts

ClearTimeout(ts, id) == {tm \in ts : tm.id # id}

SetTimeout(ts, id, a, at, d) == ts \cup {[id |-> id, due |-> at + d, args |-> a]}

(* ----------------------------- binarySearch ---------------------------- *)
(* arr is a JavaScript array, indexed from 0: arr[i] is At(arr, i).  The   *)
(* arrays searched are the ascending ones (equal neighbours allowed); the  *)
(* targets include a value above every element.                            *)
BsValues == 0..MaxVal
Targets == 0..(MaxVal + 1)
NotFound == 0 - 1

At(arr, index) == arr[index + 1]

Ascending(arr) == \A n, m \in DOMAIN arr : n < m => arr[n] <= arr[m]

SortedArrays == {arr \in UNION {[1..n -> BsValues] : n \in 0..MaxLen} : Ascending(arr)}

Mid(lo, hi) == (lo + hi) \div 2

LoopCondStrict(lo, hi) == lo < hi

LoopCond(lo, hi) == lo <= hi

(* ------------------------------- actions ------------------------------- *)
(* The program's steps change constructed, maxSize, cache and now.  last,  *)
(* prev and latest are history variables: Spec records the cache before    *)
(* the last call in prev, SpecHist records the latest set per key.         *)
Init ==
  /\ constructed = FALSE
  /\ maxSize = 0
  /\ cache = << >>
  /\ now = 0
  /\ last = [op |-> "none", key |-> NoKey, result |-> Undefined,
             value |-> Null, ttl |-> 0]
  /\ prev = << >>
  /\ watch = NoKey
  /\ latest = NoSet
  /\ used = {}
  /\ maps = [r \in Refs |-> << >>]
  /\ insts = << >>
  /\ acted = [op |-> "none", inst |-> 0]
  /\ wrapper = FALSE
  /\ limit = 0
  /\ queue = << >>
  /\ activeCount = 0
  /\ calls = [c \in CallIds |-> NotCalled]
  /\ jobs = << >>
  /\ started = << >>
  /\ rpc = "idle"
  /\ maxRetries = 0
  /\ delay = 0
  /\ loopI = 0
  /\ lastError = Undefined
  /\ result = Undefined
  /\ due = 0
  /\ elapsed = 0
  /\ invoked = 0
  /\ attempts = << >>
  /\ waited = << >>
  /\ items = << >>
  /\ setLast = [op |-> "none", item |-> NoItem, result |-> Undefined]
  /\ setPrev = << >>
  /\ debounced = FALSE
  /\ dbDelay = 0
  /\ timeout = 0
  /\ timers = {}
  /\ dbNow = 0
  /\ dbCalls = << >>
  /\ runs = << >>
  /\ bsPc = "idle"
  /\ bsArr = << >>
  /\ target = 0
  /\ left = 0
  /\ right = 0
  /\ found = 0

Called(op, k, r) ==
  last' = [op |-> op, key |-> k, result |-> r, value |-> Null, ttl |-> 0]

CalledSet(k, v, ttl) ==
  last' = [op |-> "set", key |-> k, result |-> Undefined,
           value |-> v, ttl |-> ttl]

Construct(cap) ==
  /\ ~constructed
  /\ constructed' = TRUE
  /\ maxSize' = cap
  /\ cache' = << >>
  /\ Called("new", NoKey, Undefined)
  /\ UNCHANGED now

SetCall(k, v, ttl) ==
  /\ constructed
  /\ cache' = CacheSet(cache, maxSize, k, v, ttl, now)
  /\ CalledSet(k, v, ttl)
  /\ UNCHANGED <<constructed, maxSize, now>>

GetCall(k) ==
  /\ constructed
  /\ cache' = GetStore(cache, k, now)
  /\ Called("get", k, GetResult(cache, k, now))
  /\ UNCHANGED <<constructed, maxSize, now>>

ClearCall ==
  /\ constructed
  /\ cache' = MapClear(cache)
  /\ Called("clear", NoKey, Undefined)
  /\ UNCHANGED <<constructed, maxSize, now>>

Advance ==
  /\ now < MaxTime
  /\ now' = now + 1
  /\ Called("tick", NoKey, Undefined)
  /\ UNCHANGED <<constructed, maxSize, cache>>

(* Spec: every step records the cache it started from *)
Before == prev' = cache /\ UNCHANGED <<watch, latest, used, twoVars, throttleVars, retryVars, setVars, debounceVars, searchVars>>

New == \E cap \in Capacities : Construct(cap) /\ Before

Set == \E k \in Keys, v \in Values, ttl \in Ttls : SetCall(k, v, ttl) /\ Before

Get == \E k \in Keys : GetCall(k) /\ Before

Clear == ClearCall /\ Before

Tick == Advance /\ Before

Next == New \/ Set \/ Get \/ Clear \/ Tick

Spec == Init /\ [][Next]_vars

(* SpecHist: the construction picks the key to watch; every set of that   *)
(* key is recorded as its latest, every set adds its key to used, and a    *)
(* clear starts both records anew                                          *)
HNew ==
  \E cap \in Capacities, w \in Keys :
    /\ Construct(cap)
    /\ watch' = w
    /\ UNCHANGED <<prev, latest, used, twoVars, throttleVars, retryVars, setVars, debounceVars, searchVars>>

HSet ==
  \E k \in Keys, v \in Values, ttl \in Ttls :
    /\ SetCall(k, v, ttl)
    /\ latest' = IF k = watch
                   THEN [state |-> "set", value |-> v, at |-> now, ttl |-> ttl]
                   ELSE latest
    /\ used' = used \cup {k}
    /\ UNCHANGED <<prev, watch, twoVars, throttleVars, retryVars, setVars, debounceVars, searchVars>>

HGet ==
  \E k \in Keys : GetCall(k) /\ UNCHANGED <<prev, watch, latest, used, twoVars, throttleVars, retryVars, setVars, debounceVars, searchVars>>

HClear ==
  /\ ClearCall
  /\ latest' = IF latest.state = "set"
                 THEN [latest EXCEPT !.state = "cleared"]
                 ELSE latest
  /\ used' = {}
  /\ UNCHANGED <<prev, watch, twoVars, throttleVars, retryVars, setVars, debounceVars, searchVars>>

HTick == Advance /\ UNCHANGED <<prev, watch, latest, used, twoVars, throttleVars, retryVars, setVars, debounceVars, searchVars>>

NextHist == HNew \/ HSet \/ HGet \/ HClear \/ HTick

SpecHist == Init /\ [][NextHist]_vars

(* SpecTwo: two instances, each call made on one of them *)
TwoNew ==
  \E cap \in TwoCaps :
    /\ Len(insts) < Cardinality(Instances)
    /\ LET r == FreshRef(insts)
       IN /\ maps' = [maps EXCEPT ![r] = << >>]
          /\ insts' = Append(insts, [cache |-> r, maxSize |-> cap])
    /\ acted' = [op |-> "new", inst |-> Len(insts) + 1]
    /\ UNCHANGED <<cacheVars, now, throttleVars, retryVars, setVars, debounceVars, searchVars>>

TwoSet ==
  \E i \in DOMAIN insts, k \in TwoKeys, v \in TwoValues, ttl \in TwoTtls :
    /\ maps' = [maps EXCEPT ![insts[i].cache] =
                  CacheSet(@, insts[i].maxSize, k, v, ttl, now)]
    /\ acted' = [op |-> "set", inst |-> i]
    /\ UNCHANGED <<cacheVars, now, insts, throttleVars, retryVars, setVars, debounceVars, searchVars>>

TwoGet ==
  \E i \in DOMAIN insts, k \in TwoKeys :
    /\ maps' = [maps EXCEPT ![insts[i].cache] = GetStore(@, k, now)]
    /\ acted' = [op |-> "get", inst |-> i]
    /\ UNCHANGED <<cacheVars, now, insts, throttleVars, retryVars, setVars, debounceVars, searchVars>>

TwoClear ==
  \E i \in DOMAIN insts :
    /\ maps' = [maps EXCEPT ![insts[i].cache] = MapClear(@)]
    /\ acted' = [op |-> "clear", inst |-> i]
    /\ UNCHANGED <<cacheVars, now, insts, throttleVars, retryVars, setVars, debounceVars, searchVars>>

TwoTick ==
  /\ now < MaxTime
  /\ now' = now + 1
  /\ acted' = [op |-> "tick", inst |-> 0]
  /\ UNCHANGED <<cacheVars, maps, insts, throttleVars, retryVars, setVars, debounceVars, searchVars>>

NextTwo == TwoNew \/ TwoSet \/ TwoGet \/ TwoClear \/ TwoTick

SpecTwo == Init /\ [][NextTwo]_vars

(* SpecThrottle: the wrapper is called, promiseFn's promises settle, and   *)
(* the reaction jobs run in the order they were queued.                    *)
ThrApply(r) ==
  /\ queue' = r.queue
  /\ activeCount' = r.activeCount
  /\ calls' = r.calls
  /\ started' = r.started

ThrCreate ==
  \E lim \in Limits :
    /\ ~wrapper
    /\ wrapper' = TRUE
    /\ limit' = lim
    /\ queue' = << >>
    /\ activeCount' = 0
    /\ UNCHANGED <<calls, jobs, started, cacheVars, now, twoVars, retryVars, setVars, debounceVars, searchVars>>

(* the wrapper: the call is pushed on the queue and executeNext runs *)
ThrCall ==
  \E c \in CallIds :
    /\ wrapper
    /\ calls[c].st = "none"
    /\ \A d \in CallIds : d < c => calls[d].st # "none"
    /\ ThrApply(ExecuteNext(Append(queue, c), activeCount,
                            [calls EXCEPT ![c].st = "queued"], started, limit))
    /\ UNCHANGED <<wrapper, limit, jobs, cacheVars, now, twoVars, retryVars, setVars, debounceVars, searchVars>>

(* promiseFn's promise settles: fulfilled, the .then reaction is queued;   *)
(* rejected, the .then passes the rejection on in a job of its own before  *)
(* the .catch reaction is queued                                           *)
ThrSettle ==
  \E c \in CallIds, o \in Outcomes :
    /\ calls[c].st = "pending"
    /\ calls' = [calls EXCEPT ![c].st = "settled", ![c].outcome = o]
    /\ jobs' = Append(jobs, [call |-> c,
                             kind |-> IF o = "ok" THEN "then" ELSE "pass"])
    /\ UNCHANGED <<wrapper, limit, queue, activeCount, started,
                   cacheVars, now, twoVars, retryVars, setVars, debounceVars, searchVars>>

(* the first job runs: resolve or reject, activeCount--, executeNext *)
ThrRunJob ==
  /\ jobs # << >>
  /\ LET j == Head(jobs)
     IN IF j.kind = "pass"
          THEN /\ jobs' = Append(Tail(jobs), [call |-> j.call, kind |-> "catch"])
               /\ UNCHANGED <<queue, activeCount, calls, started>>
          ELSE /\ jobs' = Tail(jobs)
               /\ ThrApply(ExecuteNext(queue, activeCount - 1,
                      [calls EXCEPT ![j.call].st = "done",
                                    ![j.call].returned =
                                       IF j.kind = "then" THEN "ok" ELSE "err"],
                      started, limit))
  /\ UNCHANGED <<wrapper, limit, cacheVars, now, twoVars, retryVars, setVars, debounceVars, searchVars>>

NextThrottle == ThrCreate \/ ThrCall \/ ThrSettle \/ ThrRunJob

SpecThrottle == Init /\ [][NextThrottle]_vars

(* the job queue always drains: a waiting reaction job is run *)
SpecThrottleLive == SpecThrottle /\ WF_vars(ThrRunJob)

(* SpecRetry: one call of retry(promiseFn, maxRetries, delay).  The loop   *)
(* head either invokes promiseFn (i < maxRetries) or leaves the loop and   *)
(* throws lastError.                                                       *)
LoopHead(n, mr, err) ==
  IF n < mr
    THEN /\ rpc' = "calling"
         /\ invoked' = invoked + 1
         /\ UNCHANGED result
    ELSE /\ rpc' = "thrown"
         /\ result' = err
         /\ UNCHANGED invoked

RetryStart ==
  \E mr \in RetryCounts, d \in Delays :
    /\ rpc = "idle"
    /\ maxRetries' = mr
    /\ delay' = d
    /\ loopI' = 0
    /\ lastError' = Undefined
    /\ LoopHead(0, mr, Undefined)
    /\ UNCHANGED <<due, elapsed, attempts, waited,
                   cacheVars, now, twoVars, throttleVars, setVars, debounceVars, searchVars>>

(* promiseFn() fulfils: retry returns its value *)
RetryFulfil ==
  \E v \in Values :
    /\ rpc = "calling"
    /\ rpc' = "returned"
    /\ result' = v
    /\ attempts' = Append(attempts, [ok |-> TRUE, val |-> v])
    /\ UNCHANGED <<maxRetries, delay, loopI, lastError, due, elapsed, invoked,
                   waited, cacheVars, now, twoVars, throttleVars, setVars, debounceVars, searchVars>>

(* promiseFn() rejects: the error is kept and the backoff timer is set *)
RetryReject ==
  \E e \in Errors :
    /\ rpc = "calling"
    /\ rpc' = "waiting"
    /\ lastError' = e
    /\ due' = Backoff(delay, loopI)
    /\ elapsed' = 0
    /\ attempts' = Append(attempts, [ok |-> FALSE, val |-> e])
    /\ UNCHANGED <<maxRetries, delay, loopI, result, invoked, waited,
                   cacheVars, now, twoVars, throttleVars, setVars, debounceVars, searchVars>>

RetryClock ==
  /\ rpc = "waiting"
  /\ elapsed < due
  /\ elapsed' = elapsed + 1
  /\ UNCHANGED <<rpc, maxRetries, delay, loopI, lastError, result, due, invoked,
                 attempts, waited, cacheVars, now, twoVars, throttleVars, setVars, debounceVars, searchVars>>

(* the timer fires once its duration has gone by: i++ and the loop head *)
RetryTimer ==
  /\ rpc = "waiting"
  /\ elapsed >= due
  /\ waited' = Append(waited, elapsed)
  /\ loopI' = loopI + 1
  /\ LoopHead(loopI + 1, maxRetries, lastError)
  /\ UNCHANGED <<maxRetries, delay, lastError, due, elapsed, attempts,
                 cacheVars, now, twoVars, throttleVars, setVars, debounceVars, searchVars>>

NextRetry == RetryStart \/ RetryFulfil \/ RetryReject \/ RetryClock \/ RetryTimer

SpecRetry == Init /\ [][NextRetry]_vars

(* SpecSet: one CustomSet and the calls made on it *)
SetCalled(op, x, r) ==
  /\ setLast' = [op |-> op, item |-> x, result |-> r]
  /\ setPrev' = items
  /\ UNCHANGED <<cacheVars, now, twoVars, throttleVars, retryVars,
               debounceVars, searchVars>>

CsNew ==
  \E arr \in Arrays :
    /\ setLast.op = "none"
    /\ items' = Dedup(arr)
    /\ SetCalled("new", NoItem, Undefined)

CsAdd ==
  \E x \in Items :
    /\ setLast.op # "none"
    /\ items' = SetAdd(items, x)
    /\ SetCalled("add", x, Undefined)

CsDelete ==
  \E x \in Items :
    /\ setLast.op # "none"
    /\ items' = SetDelete(items, x)
    /\ SetCalled("delete", x, Undefined)

CsHas ==
  \E x \in Items :
    /\ setLast.op # "none"
    /\ items' = items
    /\ SetCalled("has", x, Includes(items, x))

CsSize ==
  /\ setLast.op # "none"
  /\ items' = items
  /\ SetCalled("size", NoItem, Len(items))

CsClear ==
  /\ setLast.op # "none"
  /\ items' = << >>
  /\ SetCalled("clear", NoItem, Undefined)

NextSet == CsNew \/ CsAdd \/ CsDelete \/ CsHas \/ CsSize \/ CsClear

SpecSet == Init /\ [][NextSet]_vars

(* SpecDebounce: one debounced function, the calls of it, the host's clock *)
(* and the host running the timers that are due.  dbCalls and runs are     *)
(* history variables: a call records whether its clearTimeout cancelled a  *)
(* pending timer, a run the number of calls made before it.                *)
DbCreate ==
  \E d \in DbDelays :
    /\ ~debounced
    /\ debounced' = TRUE
    /\ dbDelay' = d
    /\ UNCHANGED <<timeout, timers, dbNow, dbCalls, runs>>
    /\ UNCHANGED <<cacheVars, now, twoVars, throttleVars, retryVars, setVars, searchVars>>

DbCall ==
  \E a \in DbArgs :
    /\ debounced
    /\ Len(dbCalls) < MaxCalls
    /\ dbNow + dbDelay <= DbMaxTime
    /\ LET id == Len(dbCalls) + 1
       IN /\ timers' = SetTimeout(ClearTimeout(timers, timeout), id, a, dbNow, dbDelay)
          /\ timeout' = id
    /\ dbCalls' = Append(dbCalls, [args |-> a, at |-> dbNow,
                                   cleared |-> \E tm \in timers : tm.id = timeout])
    /\ UNCHANGED <<debounced, dbDelay, dbNow, runs>>
    /\ UNCHANGED <<cacheVars, now, twoVars, throttleVars, retryVars, setVars, searchVars>>

DbFire ==
  \E tm \in timers :
    /\ tm.due <= dbNow
    /\ timers' = timers \ {tm}
    /\ runs' = Append(runs, [args |-> tm.args, at |-> dbNow, after |-> Len(dbCalls)])
    /\ UNCHANGED <<debounced, dbDelay, timeout, dbNow, dbCalls>>
    /\ UNCHANGED <<cacheVars, now, twoVars, throttleVars, retryVars, setVars, searchVars>>

DbTick ==
  /\ dbNow < DbMaxTime
  /\ dbNow' = dbNow + 1
  /\ UNCHANGED <<debounced, dbDelay, timeout, timers, dbCalls, runs>>
  /\ UNCHANGED <<cacheVars, now, twoVars, throttleVars, retryVars, setVars, searchVars>>

NextDebounce == DbCreate \/ DbCall \/ DbFire \/ DbTick

SpecDebounce == Init /\ [][NextDebounce]_vars

(* time goes by, and the host runs a timer that stays due *)
SpecDebounceLive == SpecDebounce /\ WF_vars(DbTick) /\ WF_vars(DbFire)

(* SpecSearch: binarySearch called on an ascending array, one iteration of *)
(* its loop at a time                                                      *)
BsCall ==
  \E arr \in SortedArrays, tg \in Targets :
    /\ bsPc # "loop"
    /\ bsPc' = "loop"
    /\ bsArr' = arr
    /\ target' = tg
    /\ left' = 0
    /\ right' = Len(arr) - 1
    /\ UNCHANGED found
    /\ UNCHANGED <<cacheVars, now, twoVars, throttleVars, retryVars, setVars, debounceVars>>

BsStep ==
  /\ bsPc = "loop"
  /\ IF LoopCond(left, right)
     THEN LET mid == Mid(left, right)
          IN IF At(bsArr, mid) = target
             THEN /\ found' = mid
                  /\ bsPc' = "done"
                  /\ UNCHANGED <<left, right>>
             ELSE IF At(bsArr, mid) < target
             THEN /\ left' = mid + 1
                  /\ UNCHANGED <<right, bsPc, found>>
             ELSE /\ right' = mid - 1
                  /\ UNCHANGED <<left, bsPc, found>>
     ELSE /\ found' = NotFound
          /\ bsPc' = "done"
          /\ UNCHANGED <<left, right>>
  /\ UNCHANGED <<bsArr, target>>
  /\ UNCHANGED <<cacheVars, now, twoVars, throttleVars, retryVars, setVars, debounceVars>>

NextSearch == BsCall \/ BsStep

SpecSearch == Init /\ [][NextSearch]_vars

(* the loop is straight-line code: an iteration that can run does run *)
SpecSearchLive == SpecSearch /\ WF_vars(BsStep)

(* the cache is a Map: no key occurs twice *)
TypeOK ==
  /\ constructed \in BOOLEAN
  /\ now \in 0..MaxTime
  /\ \A i \in DOMAIN cache : cache[i].key \in Keys /\ cache[i].value \in Values
  /\ \A i, j \in DOMAIN cache : cache[i].key = cache[j].key => i = j

(* ------------------------------ properties ----------------------------- *)
(* In Spec the state after a call shows the call: last is the call, prev   *)
(* the cache it started from, cache the cache it left, and now (which no   *)
(* call changes) the time it read.                                         *)
SetOn(k) == last.op = "set" /\ last.key = k

GetOn(k) == last.op = "get" /\ last.key = k

PositiveCapacity == constructed /\ maxSize >= 1

(* C1: with a positive capacity the cache never holds more entries than    *)
(* its capacity, whatever calls were made and however the clock advanced.  *)
C1_SizeAtMostCapacity == PositiveCapacity => Len(cache) <= maxSize

C1_Witness ==
  /\ PositiveCapacity
  /\ last.op = "set"
  /\ Len(prev) = maxSize
  /\ Len(cache) = maxSize

(* C2: a set of a key already present, made when the cache holds exactly   *)
(* capacity entries, evicts nothing: every key present before is present   *)
(* after and the size is unchanged.                                        *)
C2_OverwriteAtCapacityEvictsNothing ==
  (PositiveCapacity /\ last.op = "set" /\ Len(prev) = maxSize
     /\ MapHas(prev, last.key))
    => (MapKeys(prev) \subseteq MapKeys(cache) /\ Len(cache) = Len(prev))

(* C3: while at most capacity distinct keys have been set, a get of a key  *)
(* returns the value of its most recent set as long as the clock has not   *)
(* passed that set's time plus its ttl.                                    *)
C3_LatestValueReadable ==
  (PositiveCapacity /\ Cardinality(used) <= maxSize /\ latest.state = "set"
     /\ now <= latest.at + latest.ttl)
    => GetResult(cache, watch, now) = latest.value

(* C4: a set of a key not in the cache, made when the cache holds capacity *)
(* entries, evicts exactly the first entry in insertion order: the cache   *)
(* afterwards is the rest of the old cache, unchanged and in order,        *)
(* followed by the new key.                                                *)
C4_NewKeyEvictsFirstInserted ==
  (PositiveCapacity /\ last.op = "set" /\ Len(prev) = maxSize
     /\ ~MapHas(prev, last.key))
    => /\ Len(cache) = maxSize
       /\ SubSeq(cache, 1, Len(cache) - 1) = Tail(prev)
       /\ cache[Len(cache)].key = last.key
       /\ ~MapHas(cache, prev[1].key)

C4_Witness ==
  /\ PositiveCapacity
  /\ last.op = "set"
  /\ maxSize = 2
  /\ Len(prev) = maxSize
  /\ ~MapHas(prev, last.key)
  /\ ~MapHas(cache, prev[1].key)
  /\ MapHas(cache, prev[2].key)

(* C5 as claimed: a get of a stored key returns null exactly when the      *)
(* entry's expiry is at or before the current time, the boundary included, *)
(* and the stored value only strictly before the expiry.                   *)
C5_NullAtOrAfterExpiry ==
  \A k \in Keys :
    (GetOn(k) /\ MapHas(prev, k))
      => last.result = IF MapGet(prev, k).expiry <= now
                         THEN Null
                         ELSE MapGet(prev, k).value

(* C5 amended: a get of a stored key returns null exactly when the current *)
(* time is strictly after the entry's expiry; at the boundary, where the   *)
(* current time equals the expiry, it still returns the stored value.      *)
C5_NullStrictlyAfterExpiry ==
  \A k \in Keys :
    (GetOn(k) /\ MapHas(prev, k))
      => last.result = IF now > MapGet(prev, k).expiry
                         THEN Null
                         ELSE MapGet(prev, k).value

C5_Witness ==
  /\ last.op = "get"
  /\ MapHas(prev, last.key)
  /\ MapGet(prev, last.key).expiry = now
  /\ last.result = MapGet(prev, last.key).value

(* C6: a get made when the clock is strictly past the entry's expiry       *)
(* returns null and deletes the entry in that same call, and a key that is *)
(* not in the cache comes back into it only by a set of that key.          *)
C6_ExpiredEntryDeletedOnGet ==
  \A k \in Keys :
    /\ (GetOn(k) /\ MapHas(prev, k) /\ now > MapGet(prev, k).expiry)
         => (last.result = Null /\ ~MapHas(cache, k))
    /\ (~MapHas(prev, k) /\ MapHas(cache, k)) => SetOn(k)

C6_Witness ==
  /\ last.op = "get"
  /\ MapHas(prev, last.key)
  /\ now > MapGet(prev, last.key).expiry
  /\ last.result = Null
  /\ Len(cache) = Len(prev) - 1

(* C7: after set(k, v, 0) and a clock advance of at least 1, get(k)        *)
(* returns null, for any capacity >= 1.                                    *)
C7_ZeroTtlAbsentAfterAdvance ==
  (PositiveCapacity /\ latest.state = "set" /\ latest.ttl = 0
     /\ now >= latest.at + 1)
    => /\ GetResult(cache, watch, now) = Null
       /\ GetOn(watch) => last.result = Null

C7_Witness ==
  /\ PositiveCapacity
  /\ latest.state = "set"
  /\ latest.ttl = 0
  /\ now >= latest.at + 1
  /\ MapHas(cache, watch)
  /\ GetResult(cache, watch, now) = Null

(* C8: a clear leaves the cache empty, and from then on a get of any key   *)
(* returns null, whatever its remaining ttl was, until the key is set      *)
(* again.                                                                  *)
C8_ClearEmpties ==
  /\ last.op = "clear" => cache = << >>
  /\ (constructed /\ latest.state # "set")
       => /\ ~MapHas(cache, watch)
          /\ GetResult(cache, watch, now) = Null
          /\ GetOn(watch) => last.result = Null

C8_Witness ==
  /\ latest.state = "cleared"
  /\ now < latest.at + latest.ttl
  /\ GetOn(watch)
  /\ last.result = Null
  /\ cache # << >>

(* C9: a capacity of zero or a negative capacity is rejected at            *)
(* construction, so no constructed cache has such a capacity.              *)
C9_NonPositiveCapacityRejected == constructed => maxSize >= 1

(* C10: a set of a key already in the cache leaves the insertion order of  *)
(* the stored keys as it was.                                              *)
C10_OverwriteKeepsOrder ==
  (PositiveCapacity /\ last.op = "set" /\ MapHas(prev, last.key))
    => KeySeq(cache) = KeySeq(prev)

(* C11: in a cache of capacity 1 that holds the single key k, a set of k   *)
(* leaves the size at 1, and a get of k at any time up to the new expiry   *)
(* returns the value just set.                                             *)
C11_SelfOverwriteAtCapacityOne ==
  \A k \in Keys :
    (constructed /\ maxSize = 1 /\ SetOn(k) /\ KeySeq(prev) = <<k>>)
      => /\ Len(cache) = 1
         /\ \A t \in now..(now + last.ttl) :
              GetResult(cache, k, t) = last.value

C11_Witness ==
  /\ constructed
  /\ maxSize = 1
  /\ last.op = "set"
  /\ KeySeq(prev) = <<last.key>>
  /\ prev[1].value # last.value
  /\ Len(cache) = 1
  /\ GetResult(cache, last.key, now) = last.value

(* C13: expired entries are not swept: an entry that is expired leaves the *)
(* cache only by a get of its own key, by being the first key when a set   *)
(* finds the cache at capacity, or by a clear; a clock advance, a get of   *)
(* another key and a set that does not evict it leave it stored.           *)
C13_ExpiredEntriesNotSwept ==
  \A k \in Keys :
    (MapHas(prev, k) /\ Expired(MapGet(prev, k), now) /\ ~MapHas(cache, k))
      => \/ GetOn(k)
         \/ (last.op = "set" /\ prev[1].key = k /\ Len(prev) >= maxSize)
         \/ last.op = "clear"

C13_Witness ==
  /\ last.op = "get"
  /\ \E k \in Keys :
       /\ k # last.key
       /\ MapHas(prev, k)
       /\ Expired(MapGet(prev, k), now)
       /\ MapHas(cache, k)
       /\ Len(cache) = 2

(* C14: eviction ignores the ttl: a set of a new key on a full cache       *)
(* evicts the first-inserted entry even when that entry is unexpired and a *)
(* later-inserted entry is expired; the expired one stays.                 *)
C14_EvictionIgnoresTtl ==
  (PositiveCapacity /\ last.op = "set" /\ Len(prev) = maxSize
     /\ ~MapHas(prev, last.key)
     /\ ~Expired(prev[1], now)
     /\ \E i \in 2..Len(prev) : Expired(prev[i], now))
    => /\ ~MapHas(cache, prev[1].key)
       /\ \A i \in 2..Len(prev) : MapHas(cache, prev[i].key)

C14_Witness ==
  /\ PositiveCapacity
  /\ last.op = "set"
  /\ Len(prev) = maxSize
  /\ ~MapHas(prev, last.key)
  /\ ~Expired(prev[1], now)
  /\ \E i \in 2..Len(prev) : Expired(prev[i], now) /\ MapHas(cache, prev[i].key)
  /\ ~MapHas(cache, prev[1].key)

(* C15: eviction ignores access: a get of a stored, unexpired key or of a  *)
(* key that is not stored leaves the cache as it was, contents and order.  *)
C15_GetLeavesCacheUnchanged ==
  \A k \in Keys :
    (GetOn(k) /\ (~MapHas(prev, k) \/ ~Expired(MapGet(prev, k), now)))
      => cache = prev

C15_Witness ==
  /\ last.op = "get"
  /\ Len(prev) = 2
  /\ prev[1].key = last.key
  /\ last.result = prev[1].value
  /\ cache = prev

(* C16: a set of key k touches only k and at most one evicted entry: every *)
(* other entry still stored keeps its value and its expiry, and one call   *)
(* removes at most one entry.                                              *)
C16_SetTouchesOnlyItsKey ==
  last.op = "set"
    => /\ \A j \in MapKeys(cache) \ {last.key} :
            MapHas(prev, j) /\ MapGet(cache, j) = MapGet(prev, j)
       /\ Cardinality(MapKeys(prev) \ MapKeys(cache)) <= 1
       /\ MapHas(cache, last.key)

C16_Witness ==
  /\ last.op = "set"
  /\ Len(prev) = 2
  /\ Len(cache) = 2
  /\ ~MapHas(cache, prev[1].key)
  /\ cache[1] = prev[2]
  /\ cache[1].expiry # cache[2].expiry

(* C12: two instances do not interfere: a set, get or clear made on one    *)
(* instance leaves the store of the other instance (keys, values, expiry   *)
(* times and insertion order) as it was.                                   *)
CallOn(i) == acted'.inst = i /\ acted'.op \in {"set", "get", "clear"}

C12_InstancesDoNotInterfere ==
  [][\A i, j \in DOMAIN insts :
       (i # j /\ CallOn(i)) => StoreOf(j)' = StoreOf(j)]_vars

C12_Witness ==
  /\ Len(insts) = 2
  /\ acted.op = "set"
  /\ acted.inst = 1
  /\ Len(StoreOf(1)) = 2
  /\ Len(StoreOf(2)) = 1
  /\ KeySeq(StoreOf(1)) # KeySeq(StoreOf(2))

(* ------------------------------ throttle ------------------------------- *)
Unsettled == {c \in CallIds : calls[c].st = "pending"}

Unhandled == {c \in CallIds : calls[c].st \in {"pending", "settled"}}

(* C17 as claimed: the invocations started and not yet settled never       *)
(* exceed limit, and activeCount always equals their number.               *)
C17_ActiveCountIsUnsettled ==
  wrapper => /\ Cardinality(Unsettled) <= limit
             /\ activeCount = Cardinality(Unsettled)

(* C17 amended: the invocations started and not yet settled never exceed   *)
(* limit; activeCount equals the number of invocations started whose       *)
(* settlement handler has not yet run, which is at least the number of     *)
(* unsettled ones and never exceeds limit.                                 *)
C17_ActiveCountIsUnhandled ==
  wrapper => /\ Cardinality(Unsettled) <= limit
             /\ activeCount = Cardinality(Unhandled)
             /\ activeCount <= limit

C17_Witness ==
  /\ wrapper
  /\ limit = 2
  /\ Cardinality(Unsettled) = 1
  /\ activeCount = 2
  /\ queue # << >>

(* C18: if every started invocation eventually settles, every call made   *)
(* eventually has promiseFn invoked for it and the promise it returned     *)
(* settles the way promiseFn's promise did; invocations start in the order *)
(* of the calls; and the queue is non-empty only while activeCount equals  *)
(* limit.                                                                  *)
StartedInCallOrder == started = [i \in 1..Len(started) |-> i]

QueuedOnlyAtLimit == queue # << >> => activeCount = limit

SameOutcome ==
  \A c \in CallIds :
    calls[c].returned # "none" => calls[c].returned = calls[c].outcome

Served(c) == calls[c].st = "done" /\ calls[c].returned = calls[c].outcome

EverySettles == \A c \in CallIds : [](calls[c].st = "pending" => <>(calls[c].st # "pending"))

EveryServed == \A c \in CallIds : [](calls[c].st # "none" => <>Served(c))

C18_EveryCallServedInOrder ==
  /\ [](wrapper => (StartedInCallOrder /\ QueuedOnlyAtLimit /\ SameOutcome))
  /\ EverySettles => EveryServed

C18_Witness ==
  /\ limit = 1
  /\ \A c \in CallIds : Served(c)
  /\ \E c, d \in CallIds : calls[c].returned = "ok" /\ calls[d].returned = "err"

(* -------------------------------- retry -------------------------------- *)
(* C19: retry invokes promiseFn one at a time and at most maxRetries       *)
(* times, stops at the first fulfilment and returns its value, waits       *)
(* delay * 2^i after the i-th (0-based) failed attempt before going on,    *)
(* and when all maxRetries attempts reject it rejects with the error of    *)
(* the last attempt.                                                       *)
Failed(n) == ~attempts[n].ok

C19_RetryBacksOffAndStops ==
  /\ invoked <= maxRetries
  /\ invoked - Len(attempts) = IF rpc = "calling" THEN 1 ELSE 0
  /\ \A n \in 1..(Len(attempts) - 1) : Failed(n)
  /\ (attempts # << >> /\ attempts[Len(attempts)].ok)
       => (rpc = "returned" /\ result = attempts[Len(attempts)].val)
  /\ rpc = "returned" => (attempts # << >> /\ attempts[Len(attempts)].ok)
  /\ \A n \in 1..Len(waited) : Failed(n) /\ waited[n] >= delay * (2 ^ (n - 1))
  /\ rpc = "waiting" => due = delay * (2 ^ loopI)
  /\ rpc = "calling" => Len(waited) = Len(attempts)
  /\ rpc = "thrown"
       => /\ Len(attempts) = maxRetries
          /\ Len(waited) = maxRetries
          /\ \A n \in 1..Len(attempts) : Failed(n)
          /\ maxRetries >= 1 => result = attempts[Len(attempts)].val

C19_Witness ==
  /\ rpc = "thrown"
  /\ maxRetries = 3
  /\ delay = 2
  /\ waited = <<2, 4, 8>>
  /\ attempts[2].val # attempts[3].val
  /\ result = attempts[3].val

(* ------------------------------ CustomSet ------------------------------ *)
Elements(arr) == {arr[n] : n \in DOMAIN arr}

(* C20: CustomSet is a mathematical set: items never holds an element      *)
(* twice, size() is the number of distinct elements held, has(x) is true   *)
(* after add(x) and false after delete(x) or clear(), and a delete of an   *)
(* absent element leaves items unchanged.                                  *)
C20_CustomSetIsASet ==
  /\ \A n, m \in DOMAIN items : items[n] = items[m] => n = m
  /\ setLast.op = "size" => setLast.result = Cardinality(Elements(items))
  /\ setLast.op = "has" => setLast.result = (setLast.item \in Elements(items))
  /\ setLast.op = "add" => Elements(items) = Elements(setPrev) \cup {setLast.item}
  /\ setLast.op = "delete" => Elements(items) = Elements(setPrev) \ {setLast.item}
  /\ setLast.op = "clear" => items = << >>
  /\ (setLast.op = "delete" /\ setLast.item \notin Elements(setPrev))
       => items = setPrev

(* ------------------------------- debounce ------------------------------ *)
(* the runs of fn made while call n was the last call *)
RunsAfter(n) == {j \in DOMAIN runs : runs[j].after = n}

AtMostOneTimer == Cardinality(timers) <= 1

(* a run has the arguments of the call it follows and is made when delay   *)
(* has gone by since that call                                             *)
RunsLastArgsAfterDelay ==
  \A j \in DOMAIN runs :
    /\ runs[j].after >= 1
    /\ runs[j].args = dbCalls[runs[j].after].args
    /\ runs[j].at >= dbCalls[runs[j].after].at + dbDelay

(* call n is followed by a call less than delay later *)
NextWithinDelay(n) ==
  n < Len(dbCalls) /\ dbCalls[n + 1].at - dbCalls[n].at < dbDelay

(* call n is followed by a call made while its timer was pending *)
NextBeforeTimer(n) == n < Len(dbCalls) /\ dbCalls[n + 1].cleared

(* one run for the last call of a burst once its timer is gone, none for   *)
(* the other calls; Continued(n) says that call n is not the last of its   *)
(* burst                                                                   *)
OncePerBurst(Continued(_)) ==
  \A n \in DOMAIN dbCalls :
    Cardinality(RunsAfter(n)) =
      IF Continued(n) \/ (n = Len(dbCalls) /\ timers # {}) THEN 0 ELSE 1

(* C21, as stated: at most one timer is pending; with a burst taken as the *)
(* calls each less than delay after the one before, fn has run once for    *)
(* every burst that is over, with the arguments of its last call and not   *)
(* before delay has gone by since that call.                               *)
C21_OncePerBurstByDelay ==
  debounced => /\ AtMostOneTimer
               /\ RunsLastArgsAfterDelay
               /\ OncePerBurst(NextWithinDelay)

(* C21, amended: at most one timer is pending; a call less than delay      *)
(* after the one before finds the timer pending; with a burst taken as the *)
(* calls each made while the timer of the one before is pending, fn runs   *)
(* once for every burst, with the arguments of its last call and not       *)
(* before delay has gone by since that call; and after every call either   *)
(* another call or that run follows.                                       *)
C21_OncePerBurstByTimer ==
  /\ [](debounced => /\ AtMostOneTimer
                     /\ RunsLastArgsAfterDelay
                     /\ \A n \in DOMAIN dbCalls :
                          NextWithinDelay(n) => NextBeforeTimer(n)
                     /\ OncePerBurst(NextBeforeTimer))
  /\ \A n \in 1..MaxCalls :
       [](Len(dbCalls) = n => <>(Len(dbCalls) > n \/ RunsAfter(n) # {}))

C21_Witness ==
  /\ Len(dbCalls) = 3
  /\ dbCalls[2].at > dbCalls[1].at
  /\ NextWithinDelay(1)
  /\ NextWithinDelay(2)
  /\ dbCalls[2].args # dbCalls[3].args
  /\ timers = {}
  /\ Len(runs) = 1
  /\ runs[1].args = dbCalls[3].args

(* ----------------------------- binarySearch ---------------------------- *)
Occurs == \E n \in DOMAIN bsArr : bsArr[n] = target

(* C22: on every ascending array and for every target binarySearch         *)
(* returns, and what it returns is an index holding the target when the    *)
(* target occurs in the array and -1 exactly when it does not, the empty   *)
(* array included.                                                         *)
C22_BinarySearchFinds ==
  /\ [](bsPc = "done" =>
          /\ Occurs => (found \in 0..(Len(bsArr) - 1) /\ At(bsArr, found) = target)
          /\ found = NotFound <=> ~Occurs)
  /\ [](bsPc = "loop" => <>(bsPc = "done"))

C22_Witness ==
  /\ bsPc = "done"
  /\ Len(bsArr) = 3
  /\ At(bsArr, 0) < At(bsArr, 1)
  /\ At(bsArr, 2) = target
  /\ At(bsArr, 1) < target
  /\ found = 2

====
